---- MODULE Spec2Model ----
(***************************************************************************)
(* A model of bin/setapp.ts, the Setapp command-line installer.            *)
(*                                                                         *)
(* The script runs top to bottom: catalog acquisition (cache file, remote  *)
(* fetch, expiry computation), index build (appArchiveMap / appNameMap),   *)
(* identifier resolution (appsToInstall), the install pipelines            *)
(* (installApp, sequential or --parallel) and the installation summary.    *)
(* Each of the three parts is explored by its own specification:           *)
(*   SpecCatalog  lines 63-127   catalog acquisition over successive runs  *)
(*   SpecResolve  lines 169-248  index build and identifier resolution     *)
(*   Spec         lines 259-357  install pipelines and summary             *)
(*                                                                         *)
(* Text (tokens, application names, bundle names) is a sequence of         *)
(* one-character strings, so that Number(), toLowerCase() and the prefix   *)
(* match of find(1) are computed character by character.                   *)
(***************************************************************************)
EXTENDS Integers, Sequences, FiniteSets, TLC

VARIABLES
    \* ---- catalog acquisition (lines 63-127), over successive runs of the script
    command,         \* args[0]: "" when absent
    hasIdentifiers,  \* whether argv names identifiers after the command
    cacheDirExists,  \* ~/.cache/setapp-cli exists
    cacheFile,       \* the content of store-api-cache.json
    clock,           \* Date.now(), in milliseconds
    cpc,             \* position of the script in lines 46-127
    useCache,        \* line 74
    fetchCount,      \* calls of fetch() made by this run
    response,        \* the headers of the response: cache-control and expires
    fetchTime,       \* Date.now() of line 108
    checked,         \* history: the cache file and the time read by lines 75-79
    runs,            \* runs of the script started so far
    \* ---- index build and resolution (lines 169-248)
    json,            \* the catalog document: its shape and its vendors, each a sequence of applications
    nameFlag,        \* --name given
    appArchiveMap,   \* Map<number, {url, name}>
    appNameMap,      \* Map<string, number>, keyed by lowercased name
    appIdentifiers,  \* the identifiers of argv the resolution loop has taken so far
    outcomes,        \* what the loop printed for each identifier taken
    appsToInstall,   \* the resolved targets
    rpc,             \* position of the script in lines 169-248
    \* ---- install pipelines and summary (lines 259-357)
    parallelFlag,    \* --parallel given
    dest,            \* names of the bundles in /Applications/Setapp (without ".app")
    archives,        \* per archive URL, the bundles the downloaded archive unpacks to, once seen
    opc,             \* position of the script in lines 330-357
    called,          \* number of installApp calls made
    cur,             \* the pipeline running synchronous code, 0 when none is
    queue,           \* pipelines suspended at line 281, in resumption order
    pc,              \* per target, the stage of its installApp call
    appFiles,        \* per target, the entries of appFiles the loop of line 305 has not yet taken
    tempFile,        \* per target, whether its /tmp/setapp_<random>_<id>.zip exists
    tempDir,         \* per target, whether its /tmp/setapp_<random>_<id> exists
    settled,         \* per target, the value its installApp promise resolved to
    results,         \* the results array of line 330
    summary,         \* what lines 345-357 print
    exitCode,        \* the exit status of the process, -1 while it runs
    \* ---- history of the run, for the properties
    dest0,           \* the destination when the run started
    stages,          \* per target, the stages its pipeline entered
    matched,         \* per target, the bundles its check of line 264 found
    moved            \* per target, the bundles it moved into the destination

varsCatalog == <<command, hasIdentifiers, cacheDirExists, cacheFile, clock, cpc, useCache,
                 fetchCount, response, fetchTime, checked, runs>>

varsResolve == <<json, nameFlag, appArchiveMap, appNameMap, appIdentifiers, outcomes, rpc>>

varsPipelines == <<parallelFlag, dest, archives, opc, called, cur, queue, pc, appFiles,
                   tempFile, tempDir, settled, results, summary,
                   dest0, stages, matched, moved>>

varsInstall == <<varsPipelines, exitCode>>

vars == <<varsCatalog, varsResolve, appsToInstall, varsInstall>>

-----------------------------------------------------------------------------
(* Bounds of the model *)

\* applications in a catalog document (one per vendor at most, see Docs)
MaxVendors == 2
\* identifiers on the command line
MaxTokens == 2
\* targets of one install run
MaxTargets == 2
\* successive runs of the script over one cache file
MaxRuns == 2
\* hours the clock may reach
MaxHours == 4

-----------------------------------------------------------------------------
(* Text *)

DigitSeq == <<"0", "1", "2", "3", "4", "5", "6", "7", "8", "9">>
DigitChars == {DigitSeq[i] : i \in 1..10}
DigitVal(c) == (CHOOSE i \in 1..10 : DigitSeq[i] = c) - 1

Range(s) == {s[i] : i \in 1..Len(s)}

\* value of a sequence of digits read in base ten (parseInt(s, 10) on digits)
RECURSIVE DecVal(_)
DecVal(s) ==
    IF s = <<>> THEN 0
    ELSE 10 * DecVal(SubSeq(s, 1, Len(s) - 1)) + DigitVal(s[Len(s)])

\* String(n) for a non-negative integer
RECURSIVE DecimalString(_)
DecimalString(n) ==
    IF n < 10 THEN <<DigitSeq[n + 1]>>
    ELSE DecimalString(n \div 10) \o <<DigitSeq[(n % 10) + 1]>>

\* String.prototype.toLowerCase over the letters of the model
LowerChar(c) ==
    CASE c = "A" -> "a"
      [] c = "B" -> "b"
      [] OTHER -> c

toLowerCase(s) == [i \in 1..Len(s) |-> LowerChar(s[i])]

RECURSIVE TrimTrailingZeros(_)
TrimTrailingZeros(s) ==
    IF s # <<>> /\ s[Len(s)] = "0" THEN TrimTrailingZeros(SubSeq(s, 1, Len(s) - 1))
    ELSE s

NaN == [nan |-> TRUE, int |-> 0, frac |-> <<>>]

(* Number(identifier), line 218.  ECMAScript StringToNumber over digits, "."  *)
(* and letters: the empty string is 0; digits with at most one "." and at     *)
(* least one digit are a decimal literal ("1." is 1, ".1" is 0.1); anything   *)
(* else is NaN.  The value is kept as integer part and fraction digits.       *)
Number(s) ==
    LET dots == {i \in 1..Len(s) : s[i] = "."}
        digs == {i \in 1..Len(s) : s[i] \in DigitChars}
    IN  IF s = <<>> THEN [nan |-> FALSE, int |-> 0, frac |-> <<>>]
        ELSE IF dots \cup digs # 1..Len(s) \/ Cardinality(dots) > 1 \/ digs = {}
        THEN NaN
        ELSE IF dots = {}
        THEN [nan |-> FALSE, int |-> DecVal(s), frac |-> <<>>]
        ELSE LET d == CHOOSE i \in dots : TRUE
             IN  [nan |-> FALSE,
                  int |-> DecVal(SubSeq(s, 1, d - 1)),
                  frac |-> TrimTrailingZeros(SubSeq(s, d + 1, Len(s)))]

isNaN(n) == n.nan

-----------------------------------------------------------------------------
(* Maps *)

EmptyMap == <<>>

MapSet(m, k, v) == [x \in (DOMAIN m) \cup {k} |-> IF x = k THEN v ELSE m[x]]

MapHas(m, k) == k \in DOMAIN m

\* appArchiveMap.get(appId) finds a key only for a number equal to it
IsKeyNumber(n) == ~n.nan /\ n.frac = <<>>

-----------------------------------------------------------------------------
(* The catalog document and the index build, lines 169-190 *)

AppIds == {0, 1}
AppNames == {<<"a">>, <<"A">>, <<"b">>}
Urls == {"u1", "u2"}
\* versions.data of an application: none, or u1 listed first
VersionLists == {<<>>, <<"u1", "u2">>}

Applications == [id : AppIds, name : AppNames, versions : VersionLists]

\* a vendor lists no application or one
Vendors == {<<>>} \cup {<<a>> : a \in Applications}

VendorLists == UNION {[1..n -> Vendors] : n \in 0..MaxVendors}

\* a parsed document of the catalog shape of lines 130-167
CatalogDoc(vendors) == [shape |-> "catalog", vendors |-> vendors]

Docs == {CatalogDoc(v) : v \in VendorLists}

\* the variable json before line 81 or 93 assigns it
Undefined == [shape |-> "undefined", vendors |-> <<>>]

NoMaps == [archive |-> EmptyMap, names |-> EmptyMap]

\* lines 178-188: the body of the inner loop
AddApplication(maps, app) ==
    IF Len(app.versions) > 0
    THEN [archive |-> MapSet(maps.archive, app.id,
                             [url |-> app.versions[1], name |-> app.name]),
          names |-> MapSet(maps.names, toLowerCase(app.name), app.id)]
    ELSE maps

\* line 177: for (const app of vendor.relationships.applications.data)
RECURSIVE AddVendor(_, _)
AddVendor(maps, apps) ==
    IF apps = <<>> THEN maps
    ELSE AddVendor(AddApplication(maps, Head(apps)), Tail(apps))

\* line 175: for (const vendor of typedJson.data.relationships.vendors.data)
RECURSIVE BuildIndex(_, _)
BuildIndex(maps, vendors) ==
    IF vendors = <<>> THEN maps
    ELSE BuildIndex(AddVendor(maps, Head(vendors)), Tail(vendors))

-----------------------------------------------------------------------------
(* Identifier resolution, lines 213-248 *)

\* identifiers a user may type: "", "0", "1", ".1", ".", "a", "A"
Tokens == {<<>>, <<"0">>, <<"1">>, <<".", "1">>, <<".">>, <<"a">>, <<"A">>}

Target(app, id) == [url |-> app.url, name |-> app.name, id |-> id]

(* lines 218-242, the body of the loop for one identifier: what is printed  *)
(* (kind), the targets pushed (none or one), and which map the identifier   *)
(* itself was looked up in.                                                 *)
ResolveIdentifier(identifier, byName, archiveMap, nameMap) ==
    LET appId == Number(identifier)
        lower == toLowerCase(identifier)
    IN  IF ~isNaN(appId) /\ ~byName
        THEN \* line 222: app = appArchiveMap.get(appId)
             IF IsKeyNumber(appId) /\ MapHas(archiveMap, appId.int)
             THEN [kind |-> "Resolved", idLookup |-> TRUE, nameLookup |-> FALSE,
                   push |-> <<Target(archiveMap[appId.int], appId.int)>>]
             ELSE [kind |-> "IdNotFound", idLookup |-> TRUE, nameLookup |-> FALSE,
                   push |-> <<>>]
        ELSE IF byName
        THEN \* line 229: id = appNameMap.get(identifier.toLowerCase()); if (!id)
             IF ~MapHas(nameMap, lower) \/ nameMap[lower] = 0
             THEN [kind |-> "NameNotFound", idLookup |-> FALSE, nameLookup |-> TRUE,
                   push |-> <<>>]
             ELSE \* line 234: app = appArchiveMap.get(id); if (app) push
                  IF MapHas(archiveMap, nameMap[lower])
                  THEN [kind |-> "Resolved", idLookup |-> FALSE, nameLookup |-> TRUE,
                        push |-> <<Target(archiveMap[nameMap[lower]], nameMap[lower])>>]
                  ELSE [kind |-> "Silent", idLookup |-> FALSE, nameLookup |-> TRUE,
                        push |-> <<>>]
        ELSE \* line 239: Invalid app ID ... Use --name flag to search by name
             [kind |-> "AmbiguousToken", idLookup |-> FALSE, nameLookup |-> FALSE,
              push |-> <<>>]

\* a push that leaves out a target the list already holds
PushTargetOnce(list, pushed) ==
    IF pushed # <<>> /\ pushed[1] \in Range(list) THEN list ELSE list \o pushed

\* lines 227, 236: appsToInstall.push(...)
PushTarget(list, pushed) == list \o pushed

InitResolveIdle ==
    /\ json = Undefined
    /\ nameFlag = FALSE
    /\ appArchiveMap = EmptyMap
    /\ appNameMap = EmptyMap
    /\ appIdentifiers = <<>>
    /\ outcomes = <<>>
    /\ rpc = "off"

InitResolve ==
    /\ json \in Docs
    /\ nameFlag \in BOOLEAN
    /\ appArchiveMap = EmptyMap
    /\ appNameMap = EmptyMap
    /\ appIdentifiers = <<>>
    /\ outcomes = <<>>
    /\ appsToInstall = <<>>
    /\ rpc = "build"

(* Lines 169-190.  A json that is not of the catalog shape makes line 175    *)
(* throw a TypeError nothing catches: the process dies with status 1.        *)
BuildIndexes ==
    /\ rpc = "build"
    /\ IF json.shape = "catalog"
       THEN /\ LET maps == BuildIndex(NoMaps, json.vendors)
               IN  /\ appArchiveMap' = maps.archive
                   /\ appNameMap' = maps.names
            /\ rpc' = "dir"
            /\ UNCHANGED exitCode
       ELSE /\ rpc' = "crashed"
            /\ exitCode' = 1
            /\ UNCHANGED <<appArchiveMap, appNameMap>>
    /\ UNCHANGED <<json, nameFlag, appIdentifiers, outcomes, appsToInstall,
                   varsPipelines, varsCatalog>>

(* Lines 192-210.  The destination directory is there, or sudo mkdir makes  *)
(* it, or sudo mkdir fails and the process exits with status 1.              *)
EnsureSetappDir ==
    /\ rpc = "dir"
    /\ \/ /\ rpc' = "resolve"
          /\ UNCHANGED exitCode
       \/ /\ rpc' = "exit1"
          /\ exitCode' = 1
    /\ UNCHANGED <<json, nameFlag, appArchiveMap, appNameMap, appIdentifiers, outcomes,
                   appsToInstall, varsPipelines, varsCatalog>>

\* lines 217-243: one turn of the loop, for the next identifier of argv
ResolveNext ==
    /\ rpc = "resolve"
    /\ Len(appIdentifiers) < MaxTokens
    /\ \E identifier \in Tokens :
          LET r == ResolveIdentifier(identifier, nameFlag, appArchiveMap, appNameMap)
          IN  /\ appIdentifiers' = Append(appIdentifiers, identifier)
              /\ outcomes' = Append(outcomes, r)
              /\ appsToInstall' = PushTarget(appsToInstall, r.push)
    /\ UNCHANGED <<json, nameFlag, appArchiveMap, appNameMap, rpc, varsInstall, varsCatalog>>

\* lines 245-248: no valid apps to install, process.exit(1).  Line 46 has
\* already turned away an install without identifiers.
NoValidApps ==
    /\ rpc = "resolve"
    /\ Len(appIdentifiers) >= 1
    /\ appsToInstall = <<>>
    /\ rpc' = "exit1"
    /\ exitCode' = 1
    /\ UNCHANGED <<json, nameFlag, appArchiveMap, appNameMap, appIdentifiers,
                   outcomes, appsToInstall, varsPipelines, varsCatalog>>

\* line 250: the loop is over and there is something to install
ResolveDone ==
    /\ rpc = "resolve"
    /\ Len(appIdentifiers) >= 1
    /\ appsToInstall # <<>>
    /\ rpc' = "resolved"
    /\ UNCHANGED <<json, nameFlag, appArchiveMap, appNameMap, appIdentifiers,
                   outcomes, appsToInstall, varsInstall, varsCatalog>>

NextResolve ==
    \/ BuildIndexes
    \/ EnsureSetappDir
    \/ ResolveNext
    \/ NoValidApps
    \/ ResolveDone

-----------------------------------------------------------------------------
(* The install pipelines, lines 259-343 *)

\* the entries of the catalog the targets come from
InstallTargets ==
    {[url |-> "u1", name |-> <<"a">>, id |-> 1],
     [url |-> "u2", name |-> <<"b">>, id |-> 2],
     [url |-> "u3", name |-> <<"a", "[", "b", "]">>, id |-> 3]}

\* bundles that may sit in /Applications/Setapp: a.app, ax.app, b.app, a[b].app
BundleNames == {<<"a">>, <<"a", "x">>, <<"b">>, <<"a", "[", "b", "]">>}

\* what an archive may unpack to at depth one, in the order find lists it
Archives ==
    {<<>>, <<<<"a">>>>, <<<<"b">>>>, <<<<"b">>, <<"a">>>>, <<<<"a", "[", "b", "]">>>>}

TargetLists == UNION {[1..n -> InstallTargets] : n \in 1..MaxTargets}

N == Len(appsToInstall)

(* The pattern find(1) is given at line 264 is the text of the name followed *)
(* by "*.app", and find matches it as fnmatch(3) does: "*" is any run of     *)
(* characters, "?" any one character, "[...]" one character of the listed    *)
(* ones, anything else itself.  A "[" that no "]" closes stands for itself.  *)
RECURSIVE GlobItems(_)
GlobItems(p) ==
    IF p = <<>> THEN <<>>
    ELSE LET closes == {k \in 3..Len(p) : p[k] = "]"}
             close == CHOOSE k \in closes : \A j \in closes : k <= j
         IN  IF Head(p) = "*"
             THEN <<[kind |-> "star", set |-> {}]>> \o GlobItems(Tail(p))
             ELSE IF Head(p) = "?"
             THEN <<[kind |-> "any", set |-> {}]>> \o GlobItems(Tail(p))
             ELSE IF Head(p) = "[" /\ closes # {}
             THEN <<[kind |-> "in", set |-> {p[k] : k \in 2..(close - 1)}]>>
                      \o GlobItems(SubSeq(p, close + 1, Len(p)))
             ELSE <<[kind |-> "in", set |-> {Head(p)}]>> \o GlobItems(Tail(p))

RECURSIVE GlobMatch(_, _)
GlobMatch(items, text) ==
    IF items = <<>> THEN text = <<>>
    ELSE IF Head(items).kind = "star"
    THEN GlobMatch(Tail(items), text)
             \/ (text # <<>> /\ GlobMatch(items, Tail(text)))
    ELSE /\ text # <<>>
         /\ Head(items).kind = "any" \/ Head(text) \in Head(items).set
         /\ GlobMatch(Tail(items), Tail(text))

\* line 264: find "/Applications/Setapp" -maxdepth 1 -name "<name>*.app";
\* every bundle name ends in ".app", which the pattern's ".app" takes
FindExisting(name, dir) == {b \in dir : GlobMatch(GlobItems(name \o <<"*">>), b)}

\* line 295-298: the output of find, trimmed and split at "\n"; the empty
\* output splits to one empty string
SplitLines(files) == IF files = <<>> THEN <<<<>>>> ELSE files

NoResult == [name |-> <<>>, success |-> FALSE, skipped |-> FALSE, error |-> "pending"]

\* a skipped result that does not count as a success
SkippedResultUnsuccessful(app) ==
    [name |-> app.name, success |-> FALSE, skipped |-> TRUE, error |-> "none"]

\* line 270
SkippedResult(app) == [name |-> app.name, success |-> TRUE, skipped |-> TRUE, error |-> "none"]
\* line 322
SuccessResult(app) == [name |-> app.name, success |-> TRUE, skipped |-> FALSE, error |-> "none"]
\* line 326
FailedResult(app, e) == [name |-> app.name, success |-> FALSE, skipped |-> FALSE, error |-> e]

Terminal == {"Skipped", "Done", "Failed"}

InitPipelinesIdle ==
    /\ parallelFlag = FALSE
    /\ dest = {}
    /\ dest0 = {}
    /\ archives = <<>>
    /\ opc = "off"
    /\ called = 0
    /\ cur = 0
    /\ queue = <<>>
    /\ pc = <<>>
    /\ appFiles = <<>>
    /\ tempFile = <<>>
    /\ tempDir = <<>>
    /\ settled = <<>>
    /\ results = <<>>
    /\ summary = <<>>
    /\ stages = <<>>
    /\ matched = <<>>
    /\ moved = <<>>

InitInstallIdle == InitPipelinesIdle /\ appsToInstall = <<>> /\ exitCode = -1

InitInstall ==
    /\ appsToInstall \in TargetLists
    /\ parallelFlag \in BOOLEAN
    /\ dest \in SUBSET BundleNames
    /\ dest0 = dest
    /\ archives = [u \in {} |-> <<>>]
    /\ opc = "install"
    /\ called = 0
    /\ cur = 0
    /\ queue = <<>>
    /\ pc = [i \in 1..N |-> "Pending"]
    /\ appFiles = [i \in 1..N |-> <<>>]
    /\ tempFile = [i \in 1..N |-> FALSE]
    /\ tempDir = [i \in 1..N |-> FALSE]
    /\ settled = [i \in 1..N |-> NoResult]
    /\ results = <<>>
    /\ summary = <<>>
    /\ exitCode = -1
    /\ stages = [i \in 1..N |-> <<>>]
    /\ matched = [i \in 1..N |-> {}]
    /\ moved = [i \in 1..N |-> <<>>]

\* an error that ends the pipeline without a result
FailUncaught(i, e) ==
    /\ pc' = [pc EXCEPT ![i] = "Failed"]
    /\ stages' = [stages EXCEPT ![i] = Append(@, "Failed")]
    /\ cur' = 0
    /\ UNCHANGED settled

\* the catch of line 323: the error becomes the result of this target
Fail(i, e) ==
    /\ pc' = [pc EXCEPT ![i] = "Failed"]
    /\ settled' = [settled EXCEPT ![i] = FailedResult(appsToInstall[i], e)]
    /\ stages' = [stages EXCEPT ![i] = Append(@, "Failed")]
    /\ cur' = 0

Enter(i, stage) ==
    /\ pc' = [pc EXCEPT ![i] = stage]
    /\ stages' = [stages EXCEPT ![i] = Append(@, stage)]

\* a loop that calls the next installApp without awaiting the last one
CanCallNextEager == TRUE

\* lines 334, 339-341: the map calls one installApp after the other; the
\* sequential loop awaits and pushes the result of one before it calls the next
CanCallNext == parallelFlag \/ Len(results) = called

(* Lines 334 and 340 call installApp(app); it runs lines 262-271 at once.    *)
(* The sequential loop calls the next one after it pushed the last result;   *)
(* the map of line 334 calls each as soon as the one before suspended.       *)
InstallAppCall(i) ==
    /\ opc = "install" /\ cur = 0
    /\ i = called + 1 /\ i <= N
    /\ CanCallNext
    /\ called' = i
    /\ LET app == appsToInstall[i]
           existingApps == FindExisting(app.name, dest)
       IN  /\ matched' = [matched EXCEPT ![i] = existingApps]
           /\ IF existingApps # {}
              THEN /\ pc' = [pc EXCEPT ![i] = "Skipped"]
                   /\ stages' = [stages EXCEPT ![i] = <<"Checking", "Skipped">>]
                   /\ settled' = [settled EXCEPT ![i] = SkippedResult(app)]
                   /\ cur' = 0
              ELSE /\ pc' = [pc EXCEPT ![i] = "Downloading"]
                   /\ stages' = [stages EXCEPT ![i] = <<"Checking", "Downloading">>]
                   /\ cur' = i
                   /\ UNCHANGED settled
    /\ UNCHANGED <<varsCatalog, varsResolve, appsToInstall, parallelFlag, dest, archives, opc, queue, appFiles,
                   tempFile, tempDir, results, summary, exitCode, dest0, moved>>

(* Lines 281-288: curl writes the archive to tempFile, or fails and the      *)
(* promise rejects; either way installApp suspends at the await.             *)
Download(i) ==
    /\ cur = i /\ pc[i] = "Downloading"
    /\ \E ok \in BOOLEAN :
          /\ tempFile' = [tempFile EXCEPT ![i] = ok]
          /\ pc' = [pc EXCEPT ![i] = IF ok THEN "Downloaded" ELSE "DownloadFailed"]
    /\ queue' = Append(queue, i)
    /\ cur' = 0
    /\ UNCHANGED <<varsCatalog, varsResolve, appsToInstall, parallelFlag, dest, archives, opc, called, appFiles,
                   tempDir, settled, results, summary, exitCode, dest0, stages,
                   matched, moved>>

(* The continuation of the await of line 281.  With --parallel none runs     *)
(* before the map of line 334 has called every installApp.                   *)
Resume(i) ==
    /\ cur = 0 /\ queue # <<>> /\ i = Head(queue)
    /\ parallelFlag => called = N
    /\ queue' = Tail(queue)
    /\ IF pc[i] = "Downloaded"
       THEN /\ Enter(i, "Extracting")
            /\ cur' = i
            /\ UNCHANGED settled
       ELSE Fail(i, "download")
    /\ UNCHANGED <<varsCatalog, varsResolve, appsToInstall, parallelFlag, dest, archives, opc, called, appFiles,
                   tempFile, tempDir, results, summary, exitCode, dest0, matched, moved>>

\* lines 291-292: mkdir -p tempDir, unzip -q tempFile -d tempDir
Extract(i) ==
    /\ cur = i /\ pc[i] = "Extracting"
    /\ LET url == appsToInstall[i].url
       IN  \/ /\ Fail(i, "mkdir")
              /\ UNCHANGED <<tempDir, archives>>
           \/ /\ tempDir' = [tempDir EXCEPT ![i] = TRUE]
              /\ Fail(i, "unzip")
              /\ UNCHANGED archives
           \/ /\ tempDir' = [tempDir EXCEPT ![i] = TRUE]
              /\ IF url \in DOMAIN archives
                 THEN UNCHANGED archives
                 ELSE \E files \in Archives : archives' = MapSet(archives, url, files)
              /\ Enter(i, "Locating")
              /\ UNCHANGED <<cur, settled>>
    /\ UNCHANGED <<varsCatalog, varsResolve, appsToInstall, parallelFlag, dest, opc, called, queue, appFiles,
                   tempFile, results, summary, exitCode, dest0, matched, moved>>

\* lines 295-302: the .app entries of tempDir, and the test of their number
Locate(i) ==
    /\ cur = i /\ pc[i] = "Locating"
    /\ LET found == SplitLines(archives[appsToInstall[i].url])
       IN  IF Len(found) = 0
           THEN /\ Fail(i, "nobundle")
                /\ UNCHANGED appFiles
           ELSE /\ appFiles' = [appFiles EXCEPT ![i] = found]
                /\ Enter(i, "Placing")
                /\ UNCHANGED <<cur, settled>>
    /\ UNCHANGED <<varsCatalog, varsResolve, appsToInstall, parallelFlag, dest, archives, opc, called, queue,
                   tempFile, tempDir, results, summary, exitCode, dest0, matched, moved>>

\* an existence test that never finds the bundle
ExistsAtDestNever(appName, dir) == FALSE

\* line 311: fs.existsSync(destPath)
ExistsAtDest(appName, dir) == appName \in dir

\* lines 305-318: one turn of the loop over appFiles
Place(i) ==
    /\ cur = i /\ pc[i] = "Placing" /\ appFiles[i] # <<>>
    /\ LET appFile == Head(appFiles[i])
       IN  \/ /\ appFile = <<>> \/ ExistsAtDest(appFile, dest)
              /\ appFiles' = [appFiles EXCEPT ![i] = Tail(@)]
              /\ UNCHANGED <<dest, moved, pc, settled, stages, cur>>
           \/ /\ appFile # <<>> /\ ~ExistsAtDest(appFile, dest)
              /\ \/ /\ dest' = dest \cup {appFile}
                    /\ moved' = [moved EXCEPT ![i] = Append(@, appFile)]
                    /\ appFiles' = [appFiles EXCEPT ![i] = Tail(@)]
                    /\ UNCHANGED <<pc, settled, stages, cur>>
                 \/ /\ Fail(i, "mv")
                    /\ UNCHANGED <<dest, moved, appFiles>>
    /\ UNCHANGED <<varsCatalog, varsResolve, appsToInstall, parallelFlag, archives, opc, called, queue,
                   tempFile, tempDir, results, summary, exitCode, dest0, matched>>

\* a cleanup that removes the extraction directory and leaves the archive
CleanupKeepsArchive(i) ==
    /\ cur = i /\ pc[i] = "Placing" /\ appFiles[i] = <<>>
    /\ tempDir' = [tempDir EXCEPT ![i] = FALSE]
    /\ Enter(i, "Done")
    /\ settled' = [settled EXCEPT ![i] = SuccessResult(appsToInstall[i])]
    /\ cur' = 0
    /\ UNCHANGED <<varsCatalog, varsResolve, appsToInstall, parallelFlag, dest, archives,
                   opc, called, queue, appFiles, tempFile, results, summary, exitCode,
                   dest0, matched, moved>>

\* lines 320-322: rm -rf tempDir tempFile, then the success result
Cleanup(i) ==
    /\ cur = i /\ pc[i] = "Placing" /\ appFiles[i] = <<>>
    /\ \/ /\ tempDir' = [tempDir EXCEPT ![i] = FALSE]
          /\ tempFile' = [tempFile EXCEPT ![i] = FALSE]
          /\ Enter(i, "Done")
          /\ settled' = [settled EXCEPT ![i] = SuccessResult(appsToInstall[i])]
          /\ cur' = 0
       \/ /\ Fail(i, "rm")
          /\ UNCHANGED <<tempDir, tempFile>>
    /\ UNCHANGED <<varsCatalog, varsResolve, appsToInstall, parallelFlag, dest, archives, opc, called, queue,
                   appFiles, results, summary, exitCode, dest0, matched, moved>>

\* lines 339-342: the sequential loop pushes the result it awaited
PushResult ==
    /\ opc = "install" /\ cur = 0 /\ ~parallelFlag
    /\ Len(results) < called
    /\ pc[called] \in Terminal
    /\ results' = Append(results, settled[called])
    /\ opc' = IF Len(results') = N THEN "summary" ELSE "install"
    /\ UNCHANGED <<varsCatalog, varsResolve, appsToInstall, parallelFlag, dest, archives, called, cur, queue, pc,
                   appFiles, tempFile, tempDir, settled, summary, exitCode, dest0,
                   stages, matched, moved>>

\* line 335: results = await Promise.all(installPromises)
AwaitAll ==
    /\ opc = "install" /\ cur = 0 /\ parallelFlag
    /\ called = N
    /\ \A i \in 1..N : pc[i] \in Terminal
    /\ results' = [i \in 1..N |-> settled[i]]
    /\ opc' = "summary"
    /\ UNCHANGED <<varsCatalog, varsResolve, appsToInstall, parallelFlag, dest, archives, called, cur, queue, pc,
                   appFiles, tempFile, tempDir, settled, summary, exitCode, dest0,
                   stages, matched, moved>>

\* results.filter(r => r.success).length, line 345
CountSuccessful(rs) == Cardinality({i \in 1..Len(rs) : rs[i].success})

\* results.filter(r => r.skipped).length, line 346
CountSkipped(rs) == Cardinality({i \in 1..Len(rs) : rs[i].skipped})

\* an exit status that tells whether a target failed
ExitStatusByFailures(rs) == IF \E i \in 1..Len(rs) : ~rs[i].success THEN 1 ELSE 0

\* lines 357-374: the script ends without a call of process.exit, whatever
\* the results are, and the process exits with status 0
ExitStatus(rs) == 0

(* Lines 345-357: the three lines of the summary; the skipped and the failed *)
(* line are printed only for a count above zero.  The script then ends, and  *)
(* the process exits with status 0.                                          *)
Summary ==
    /\ opc = "summary"
    /\ LET successful == CountSuccessful(results)
           skipped == CountSkipped(results)
       IN  summary' = [installed |-> successful - skipped,
                       total |-> N,
                       skippedLine |-> IF skipped > 0 THEN <<skipped>> ELSE <<>>,
                       failedLine |-> IF successful < N
                                      THEN <<N - successful>> ELSE <<>>]
    /\ opc' = "done"
    /\ exitCode' = ExitStatus(results)
    /\ UNCHANGED <<varsCatalog, varsResolve, appsToInstall, parallelFlag, dest, archives, called, cur, queue, pc,
                   appFiles, tempFile, tempDir, settled, results, dest0, stages,
                   matched, moved>>

Next ==
    \/ \E i \in 1..N : InstallAppCall(i)
    \/ \E i \in 1..N : Download(i)
    \/ \E i \in 1..N : Resume(i)
    \/ \E i \in 1..N : Extract(i)
    \/ \E i \in 1..N : Locate(i)
    \/ \E i \in 1..N : Place(i)
    \/ \E i \in 1..N : Cleanup(i)
    \/ PushResult
    \/ AwaitAll
    \/ Summary

-----------------------------------------------------------------------------
(* Catalog acquisition, lines 46-127 *)

Hour == 3600 * 1000

\* line 96: let maxAge = 14400
DefaultMaxAge == 14400
\* line 108: maxAge * 1000
MsPerSecond == 1000

Min(a, b) == IF a <= b THEN a ELSE b

Commands == {"", "install", "list", "frobnicate"}

(* A header text is a sequence of pieces: the piece "max-age=", digits, and  *)
(* other text ("x", ",").  present is FALSE when headers.get returns null.   *)
Header(text) == [present |-> TRUE, text |-> text]
NoHeader == [present |-> FALSE, text |-> <<>>]

CacheControlHeaders ==
    {NoHeader,
     Header(<<>>),
     Header(<<"x">>),
     Header(<<"max-age=", "x">>),
     Header(<<"max-age=", "0">>),
     Header(<<"max-age=", "3", "6", "0", "0">>),
     Header(<<"x", ",", "max-age=", "7", "2", "0", "0", ",", "x">>),
     Header(<<"max-age=", "x", ",", "max-age=", "3", "6", "0", "0">>)}

\* the expires header: absent, empty, not a date, or a date with its time
ExpiresHeaders ==
    {[kind |-> "absent", time |-> 0], [kind |-> "empty", time |-> 0],
     [kind |-> "invalid", time |-> 0]}
        \cup {[kind |-> "date", time |-> h * Hour] : h \in 0..(MaxHours + 1)}

NoResponse == [cacheControl |-> NoHeader, expires |-> [kind |-> "absent", time |-> 0]]

RECURSIVE DigitRun(_, _)
DigitRun(text, i) ==
    IF i <= Len(text) /\ text[i] \in DigitChars
    THEN <<text[i]>> \o DigitRun(text, i + 1)
    ELSE <<>>

\* line 101: cacheControl.match(/max-age=(\d+)/)[1], or <<>> without a match
MatchMaxAge(text) ==
    LET starts == {i \in 1..(Len(text) - 1) :
                      text[i] = "max-age=" /\ text[i + 1] \in DigitChars}
    IN  IF starts = {} THEN <<>>
        ELSE DigitRun(text, (CHOOSE i \in starts : \A j \in starts : i <= j) + 1)

\* lines 96-105
MaxAgeOf(cacheControl) ==
    IF cacheControl.present /\ cacheControl.text # <<>>
           /\ MatchMaxAge(cacheControl.text) # <<>>
    THEN DecVal(MatchMaxAge(cacheControl.text))
    ELSE DefaultMaxAge

\* the later of the two expiry times
ExpiryTimeLater(now, cacheControl, expires) ==
    IF expires.kind = "date"
    THEN IF now + MaxAgeOf(cacheControl) * MsPerSecond >= expires.time
         THEN now + MaxAgeOf(cacheControl) * MsPerSecond ELSE expires.time
    ELSE now + MaxAgeOf(cacheControl) * MsPerSecond

\* lines 108-117
ExpiryTime(now, cacheControl, expires) ==
    IF expires.kind = "date"
    THEN Min(now + MaxAgeOf(cacheControl) * MsPerSecond, expires.time)
    ELSE now + MaxAgeOf(cacheControl) * MsPerSecond

\* a record still valid at the instant of its expiry
CacheValidInclusive(expiry, now) == expiry # 0 /\ expiry >= now

\* line 79: cacheData.expiry && cacheData.expiry > now
CacheValid(expiry, now) == expiry # 0 /\ expiry > now

\* documents the remote source or the cache file may hold
SomeDocs ==
    {CatalogDoc(<<<<[id |-> 1, name |-> <<"a">>, versions |-> <<"u1", "u2">>]>>>>)}
OtherDoc == [shape |-> "other", vendors |-> <<>>]

MissingFile == [kind |-> "missing", expiry |-> 0, data |-> Undefined]
MalformedFile == [kind |-> "malformed", expiry |-> 0, data |-> Undefined]
\* a file that parses to an object: expiry 0 stands for an absent expiry too
JsonFile(expiry, data) == [kind |-> "json", expiry |-> expiry, data |-> data]

CacheFiles ==
    {MissingFile, MalformedFile}
        \cup {JsonFile(h * Hour, d) :
                 h \in 0..(MaxHours + 1), d \in SomeDocs \cup {OtherDoc, Undefined}}

NotChecked == [file |-> MissingFile, now |-> 0]

InitCatalogIdle ==
    /\ command = ""
    /\ hasIdentifiers = FALSE
    /\ cacheDirExists = FALSE
    /\ cacheFile = MissingFile
    /\ clock = 0
    /\ cpc = "off"
    /\ useCache = FALSE
    /\ fetchCount = 0
    /\ response = NoResponse
    /\ fetchTime = 0
    /\ checked = NotChecked
    /\ runs = 0

InitCatalog ==
    /\ command = ""
    /\ hasIdentifiers = FALSE
    /\ cacheDirExists \in BOOLEAN
    /\ cacheFile \in (IF cacheDirExists THEN CacheFiles ELSE {MissingFile})
    /\ clock = Hour
    /\ cpc = "idle"
    /\ useCache = FALSE
    /\ fetchCount = 0
    /\ response = NoResponse
    /\ fetchTime = 0
    /\ checked = NotChecked
    /\ runs = 0
    /\ appsToInstall = <<>>

\* the script is started: lines 8-32 read argv
StartRun ==
    /\ cpc = "idle" /\ runs < MaxRuns
    /\ runs' = runs + 1
    /\ command' \in Commands
    /\ hasIdentifiers' \in (IF command' = "install" THEN BOOLEAN ELSE {FALSE})
    /\ \E h \in 0..MaxHours : clock' = clock + h * Hour /\ clock' <= MaxHours * Hour
    /\ cpc' = "args"
    /\ UNCHANGED <<cacheDirExists, cacheFile, useCache, fetchCount, response, fetchTime,
                   checked, varsResolve, appsToInstall, varsInstall>>

\* lines 46-61: usage, process.exit(1)
Usage ==
    /\ cpc = "args"
    /\ command = "" \/ (command = "install" /\ ~hasIdentifiers)
    /\ cpc' = "exited"
    /\ exitCode' = 1
    /\ UNCHANGED <<command, hasIdentifiers, cacheDirExists, cacheFile, clock, useCache,
                   fetchCount, response, fetchTime, checked, runs, varsResolve,
                   appsToInstall, varsPipelines>>

\* lines 68-71: mkdirSync throws when the directory cannot be made
EnsureCacheDir ==
    /\ cpc = "args"
    /\ ~(command = "" \/ (command = "install" /\ ~hasIdentifiers))
    /\ \/ /\ cacheDirExists
          /\ cpc' = "cache"
          /\ UNCHANGED <<cacheDirExists, exitCode>>
       \/ /\ ~cacheDirExists
          /\ cacheDirExists' = TRUE
          /\ cpc' = "cache"
          /\ UNCHANGED exitCode
       \/ /\ ~cacheDirExists
          /\ cpc' = "crashed"
          /\ exitCode' = 1
          /\ UNCHANGED cacheDirExists
    /\ UNCHANGED <<command, hasIdentifiers, cacheFile, clock, useCache,
                   fetchCount, response, fetchTime, checked, runs, varsResolve,
                   appsToInstall, varsPipelines>>

(* Lines 73-87.  A file that does not parse, or whose reading throws, lands  *)
(* in the catch; a parsed one is used when its expiry passes line 79.        *)
CheckCache ==
    /\ cpc = "cache"
    /\ checked' = [file |-> cacheFile, now |-> clock]
    /\ IF cacheFile.kind = "json" /\ CacheValid(cacheFile.expiry, clock)
       THEN /\ json' = cacheFile.data
            /\ useCache' = TRUE
            /\ cpc' = "loaded"
            /\ rpc' = "build"
       ELSE /\ cpc' = "fetch"
            /\ UNCHANGED <<json, useCache, rpc>>
    /\ UNCHANGED <<command, hasIdentifiers, cacheDirExists, cacheFile, clock,
                   fetchCount, response, fetchTime, runs, nameFlag, appArchiveMap,
                   appNameMap, appIdentifiers, outcomes, appsToInstall, varsInstall>>

(* Lines 89-93: fetch and response.json().  Either may throw, which nothing  *)
(* catches.  The request takes time.                                         *)
Fetch ==
    /\ cpc = "fetch" /\ ~useCache
    /\ fetchCount' = fetchCount + 1
    /\ \E h \in 0..1 : clock' = Min(clock + h * Hour, MaxHours * Hour)
    /\ \/ /\ cpc' = "crashed"
          /\ exitCode' = 1
          /\ UNCHANGED <<json, response>>
       \/ /\ json' \in SomeDocs \cup {OtherDoc}
          /\ \E cc \in CacheControlHeaders, ex \in ExpiresHeaders :
                response' = [cacheControl |-> cc, expires |-> ex]
          /\ cpc' = "expiry"
          /\ UNCHANGED exitCode
    /\ UNCHANGED <<command, hasIdentifiers, cacheDirExists, cacheFile, useCache,
                   fetchTime, checked, runs, nameFlag, appArchiveMap, appNameMap,
                   appIdentifiers, outcomes, rpc, appsToInstall, varsPipelines>>

(* Lines 95-126: the expiry from the headers, then writeFileSync, which      *)
(* throws when the file cannot be written.                                   *)
SaveCache ==
    /\ cpc = "expiry"
    /\ fetchTime' = clock
    /\ \/ /\ cacheFile' = JsonFile(ExpiryTime(clock, response.cacheControl,
                                              response.expires), json)
          /\ cpc' = "loaded"
          /\ rpc' = "build"
          /\ UNCHANGED exitCode
       \/ /\ cpc' = "crashed"
          /\ exitCode' = 1
          /\ UNCHANGED <<cacheFile, rpc>>
    /\ UNCHANGED <<command, hasIdentifiers, cacheDirExists, clock, useCache,
                   fetchCount, response, checked, runs, json, nameFlag, appArchiveMap,
                   appNameMap, appIdentifiers, outcomes, appsToInstall, varsPipelines>>

(* Lines 213, 358-374, for a command other than install: list prints the     *)
(* applications, any other command prints "Unknown command" and the          *)
(* available ones; either way the script ends there.                         *)
Dispatch ==
    /\ cpc = "loaded" /\ rpc = "resolve"
    /\ command # "install"
    /\ rpc' = IF command = "list" THEN "listed" ELSE "unknown"
    /\ exitCode' = ExitStatus(results)
    /\ UNCHANGED <<varsCatalog, json, nameFlag, appArchiveMap, appNameMap, appIdentifiers,
                   outcomes, appsToInstall, varsPipelines>>

\* the process has ended, or went on to resolve identifiers; its memory is gone
EndRun ==
    /\ \/ cpc \in {"exited", "crashed"}
       \/ rpc \in {"crashed", "exit1", "listed", "unknown"}
       \/ rpc = "resolve" /\ command = "install"
    /\ cpc' = "idle"
    /\ command' = ""
    /\ hasIdentifiers' = FALSE
    /\ useCache' = FALSE
    /\ fetchCount' = 0
    /\ response' = NoResponse
    /\ fetchTime' = 0
    /\ checked' = NotChecked
    /\ json' = Undefined
    /\ appArchiveMap' = EmptyMap
    /\ appNameMap' = EmptyMap
    /\ rpc' = "off"
    /\ exitCode' = -1
    /\ UNCHANGED <<cacheDirExists, cacheFile, clock, runs, nameFlag, appIdentifiers,
                   outcomes, appsToInstall, varsPipelines>>

NextCatalog ==
    \/ StartRun
    \/ Usage
    \/ EnsureCacheDir
    \/ CheckCache
    \/ Fetch
    \/ SaveCache
    \/ BuildIndexes
    \/ EnsureSetappDir
    \/ Dispatch
    \/ EndRun

-----------------------------------------------------------------------------
(* Specifications *)

Init == InitInstall /\ InitResolveIdle /\ InitCatalogIdle

Spec == Init /\ [][Next]_vars

InitResolution == InitResolve /\ InitInstallIdle /\ InitCatalogIdle

SpecResolve == InitResolution /\ [][NextResolve]_vars

InitAcquisition == InitCatalog /\ InitResolveIdle /\ InitPipelinesIdle /\ exitCode = -1

SpecCatalog == InitAcquisition /\ [][NextCatalog]_vars

-----------------------------------------------------------------------------
(* Claims about resolution *)

\* the claim's "parses as an integer": one or more decimal digits
ParsesAsInteger(token) == token # <<>> /\ Range(token) \subseteq DigitChars

ModelChars == {"a", "A", "b", "B", "0", "1", "."}

CaseVariants(name) ==
    {v \in [1..Len(name) -> ModelChars] : toLowerCase(v) = toLowerCase(name)}

(* C3: with name-lookup off, a token that parses as an integer is looked up  *)
(* by id (a miss is IdNotFound) and every other token is AmbiguousToken and  *)
(* is never looked up by id; with name-lookup on, every token is looked up   *)
(* only by lowercased name.                                                  *)
C3_DecisionTable ==
    \A i \in 1..Len(appIdentifiers) :
        LET token == appIdentifiers[i]
            o == outcomes[i]
        IN  IF nameFlag
            THEN o.nameLookup /\ ~o.idLookup /\ o.kind \in {"Resolved", "NameNotFound"}
            ELSE IF ParsesAsInteger(token)
            THEN /\ o.idLookup /\ ~o.nameLookup
                 /\ o.kind = (IF MapHas(appArchiveMap, DecVal(token))
                              THEN "Resolved" ELSE "IdNotFound")
            ELSE o.kind = "AmbiguousToken" /\ ~o.idLookup

(* C4: resolver round trip.  For every entry of the built index, the decimal *)
(* string of its id resolves to it with name-lookup off, and every case      *)
(* variant of its name resolves to it with name-lookup on.                   *)
C4_RoundTrip ==
    rpc \in {"resolve", "resolved", "exit1"} =>
        \A id \in DOMAIN appArchiveMap :
            LET entry == Target(appArchiveMap[id], id)
            IN  /\ ResolveIdentifier(DecimalString(id), FALSE,
                                     appArchiveMap, appNameMap).push = <<entry>>
                /\ \A v \in CaseVariants(entry.name) :
                       ResolveIdentifier(v, TRUE, appArchiveMap, appNameMap).push
                           = <<entry>>

RECURSIVE Flatten(_)
Flatten(ss) == IF ss = <<>> THEN <<>> ELSE Head(ss) \o Flatten(Tail(ss))

(* C5: the install targets are exactly the entries of the tokens that        *)
(* resolve, in input order; a failed token removes only itself and identical *)
(* tokens stay separate targets.                                             *)
C5_TargetsPerToken ==
    appsToInstall =
        Flatten([i \in 1..Len(appIdentifiers) |->
                    ResolveIdentifier(appIdentifiers[i], nameFlag,
                                      appArchiveMap, appNameMap).push])

\* two identical tokens, both resolved, each to a target of its own
C5_Witness ==
    /\ rpc = "resolved"
    /\ Len(appIdentifiers) = 2
    /\ appIdentifiers[1] = appIdentifiers[2]
    /\ Len(appsToInstall) = 2
    /\ appsToInstall[1] = appsToInstall[2]

-----------------------------------------------------------------------------
(* Claims about catalog acquisition *)

\* the claim's valid cache record: one that parsed, with expiry > now
ValidRecord(file, now) == file.kind = "json" /\ file.expiry > now

Checked == checked # NotChecked

(* C1: catalog acquisition fetches if and only if there is no valid cache    *)
(* record.  With a record whose expiry > now the run uses the cached         *)
(* document and never fetches; with expiry <= now, or no record, it fetches  *)
(* exactly once.                                                             *)
C1_FetchIffNoValidCache ==
    /\ fetchCount <= 1
    /\ Checked =>
          /\ useCache <=> ValidRecord(checked.file, checked.now)
          /\ useCache => fetchCount = 0 /\ json = checked.file.data
          /\ (~useCache /\ cpc # "fetch") => fetchCount = 1

\* a run that found the record written by the run before it still valid
C1_Witness ==
    /\ runs = 2 /\ Checked /\ useCache /\ rpc = "resolve" /\ fetchCount = 0
    /\ checked.file.expiry = checked.now + Hour

\* the max-age, in seconds, each cache-control header of the model declares;
\* -1 when the directive is absent or its value is not a number
DeclaredMaxAge(h) ==
    CASE h = Header(<<"max-age=", "0">>) -> 0
      [] h = Header(<<"max-age=", "3", "6", "0", "0">>) -> 3600
      [] h = Header(<<"x", ",", "max-age=", "7", "2", "0", "0", ",", "x">>) -> 7200
      [] h = Header(<<"max-age=", "x", ",", "max-age=", "3", "6", "0", "0">>) -> 3600
      [] OTHER -> -1

Saved == cpc = "loaded" /\ ~useCache

(* C2: after a fetch the stored expiry is the earlier of fetch-time +        *)
(* max-age and the absolute expiration when both are present and parsable,   *)
(* fetch-time + max-age with only max-age, and 14400 s stand in for a        *)
(* max-age that is absent or unparsable.                                     *)
C2_StoredExpiry ==
    Saved =>
        LET declared == DeclaredMaxAge(response.cacheControl)
            window == IF declared >= 0 THEN declared ELSE 14400
            byAge == fetchTime + window * 1000
            absolute == response.expires.time
        IN  cacheFile.expiry =
                IF response.expires.kind = "date" /\ absolute < byAge
                THEN absolute ELSE byAge

\* max-age=7200 with an absolute expiry one hour after the fetch
C2_Witness ==
    /\ Saved
    /\ DeclaredMaxAge(response.cacheControl) = 7200
    /\ response.expires.kind = "date"
    /\ response.expires.time = fetchTime + Hour
    /\ cacheFile.expiry = fetchTime + Hour

-----------------------------------------------------------------------------
(* Claims about the install pipelines *)

(* C6: in both modes the orchestrator produces exactly one result per        *)
(* target, whatever stage a pipeline fails at; a failure becomes a Failed    *)
(* result and never ends the run.                                            *)
C6_OneResultPerTarget ==
    /\ Len(results) <= N
    /\ opc # "done" => ENABLED Next
    /\ opc \in {"summary", "done"} =>
          /\ Len(results) = N
          /\ \A i \in 1..N :
                /\ pc[i] \in Terminal
                /\ results[i] = settled[i]
                /\ results[i].error # "pending"
                /\ results[i].name = appsToInstall[i].name
                /\ pc[i] = "Failed" <=> ~results[i].success

\* a parallel run of two targets whose first pipeline failed
C6_Witness ==
    /\ opc = "done" /\ parallelFlag /\ N = 2
    /\ pc[1] = "Failed" /\ pc[2] = "Done"
    /\ Len(results) = 2

FailedInPipeline(k) ==
    pc[k] = "Failed" /\ settled[k].error \in {"download", "mkdir", "unzip", "nobundle", "mv"}

(* C7: failure isolation.  When a target fails at download, extraction,      *)
(* locating or placing, every other target still ends with its own result,   *)
(* the one it would have had without the failed target: it is skipped        *)
(* exactly when its check finds a bundle the failed target did not bring.    *)
C7_FailureIsolation ==
    opc = "done" =>
        \A k \in 1..N : FailedInPipeline(k) =>
            \A j \in (1..N) \ {k} :
                /\ pc[j] \in Terminal
                /\ results[j] = settled[j]
                /\ settled[j].skipped
                      <=> {b \in matched[j] : b \notin Range(moved[k])} # {}

\* the claim's "holds a bundle whose name is prefixed by the target's name"
HoldsPrefixedBundle(dir, name) ==
    \E b \in dir : Len(b) >= Len(name) /\ \A c \in 1..Len(name) : b[c] = name[c]

(* C8: idempotent skip.  A pipeline whose check finds the destination        *)
(* holding a bundle prefixed by the target's name ends with success and      *)
(* skipped, downloads, extracts and moves nothing and leaves the             *)
(* destination as it is; the result stays, and a later pipeline of the       *)
(* same name ends the same way.                                              *)
C8_IdempotentSkip ==
    [][\A i \in 1..N :
          /\ (pc[i] = "Pending" /\ pc'[i] # "Pending"
                 /\ HoldsPrefixedBundle(dest, appsToInstall[i].name))
               => /\ pc'[i] = "Skipped"
                  /\ settled'[i].success /\ settled'[i].skipped
                  /\ dest' = dest /\ moved' = moved
                  /\ tempFile' = tempFile /\ tempDir' = tempDir
                  /\ "Downloading" \notin Range(stages'[i])
          /\ pc[i] = "Skipped"
               => /\ pc'[i] = "Skipped" /\ settled'[i] = settled[i]
                  /\ \A j \in 1..N :
                        (pc[j] = "Pending" /\ pc'[j] # "Pending"
                            /\ appsToInstall[j].name = appsToInstall[i].name)
                          => pc'[j] = "Skipped" /\ settled'[j] = settled[i]]_vars

HappyPath == <<"Checking", "Downloading", "Extracting", "Locating", "Placing", "Done">>

(* C9: happy path.  A target whose check finds nothing, whose download,      *)
(* extraction and moves all succeed and whose archive holds a bundle passes  *)
(* through Downloading, Extracting, Locating, Placing and Done in that       *)
(* order and ends with success, not skipped, its bundles at the destination. *)
C9_HappyPath ==
    \A i \in 1..N :
        (/\ pc[i] \in Terminal
         /\ matched[i] = {}
         /\ "Locating" \in Range(stages[i])
         /\ archives[appsToInstall[i].url] # <<>>
         /\ settled[i].error # "mv")
          => /\ stages[i] = HappyPath
             /\ settled[i].success /\ ~settled[i].skipped
             /\ Range(archives[appsToInstall[i].url]) \subseteq dest

(* C10: the summary prints installed = results with success and not          *)
(* skipped, skipped = results with skipped, failed = total minus results     *)
(* with success; the three are non-negative and sum to the number of         *)
(* targets.                                                                  *)
C10_SummaryCounts ==
    opc = "done" =>
        LET installed == Cardinality({i \in 1..Len(results) :
                                         results[i].success /\ ~results[i].skipped})
            skipped == Cardinality({i \in 1..Len(results) : results[i].skipped})
            failed == Len(results)
                          - Cardinality({i \in 1..Len(results) : results[i].success})
            printedSkipped == IF summary.skippedLine = <<>> THEN 0
                              ELSE summary.skippedLine[1]
            printedFailed == IF summary.failedLine = <<>> THEN 0
                             ELSE summary.failedLine[1]
        IN  /\ summary.installed = installed
            /\ summary.total = N
            /\ printedSkipped = skipped
            /\ printedFailed = failed
            /\ summary.installed >= 0 /\ printedSkipped >= 0 /\ printedFailed >= 0
            /\ summary.installed + printedSkipped + printedFailed = N

\* one target installed and one skipped
C10_Witness ==
    /\ opc = "done" /\ N = 2
    /\ summary.installed = 1
    /\ summary.skippedLine = <<1>>
    /\ summary.failedLine = <<>>

(* C11: an install run that resolved at least one target and completed      *)
(* exits with status zero whatever its results are, also when every target   *)
(* failed; no pipeline ends the process before the summary.                  *)
C11_CompletedRunExitsZero ==
    /\ opc = "done" => exitCode = 0
    /\ opc # "done" => exitCode = -1

\* a completed run of two targets that both failed
C11_Witness ==
    /\ opc = "done" /\ N = 2
    /\ \A i \in 1..N : pc[i] = "Failed" /\ ~results[i].success
    /\ summary.failedLine = <<2>>
    /\ exitCode = 0

(* C12: a command name other than install or list makes the run exit         *)
(* non-zero, with an unknown-command message.                                *)
C12_UnknownCommandExitsNonZero ==
    (command \notin {"", "install", "list"} /\ exitCode # -1) => exitCode >= 1

\* the claim's invalid record: missing, not parsable, without an expiry,
\* expired, or holding a document that is missing or not of the catalog shape
InvalidRecord(file, now) ==
    \/ file.kind # "json"
    \/ file.expiry <= now
    \/ file.data.shape # "catalog"

(* C13: cache load fails soft.  For every content of the cache file loading  *)
(* never aborts the run; an invalid record is treated as absent and the run  *)
(* goes on to the remote fetch.                                              *)
C13_CacheLoadFailsSoft ==
    (Checked /\ InvalidRecord(checked.file, checked.now)) =>
        /\ ~useCache
        /\ cpc # "fetch" => fetchCount = 1
        /\ ~(rpc = "crashed" /\ fetchCount = 0)

\* the run aborted on persisting the cache: before any fetch, where only
\* mkdirSync of line 70 can throw, or after line 108, at writeFileSync
PersistAborted == cpc = "crashed" /\ (fetchCount = 0 \/ fetchTime # 0)

(* C14: a failure to persist the cache, creating the cache directory or      *)
(* writing the cache file, is not fatal: the run goes on to build the index  *)
(* from the fetched document.                                                *)
C14_PersistFailureNotFatal == ~PersistAborted

(* C15: when the extraction directory holds no bundle at depth one, the      *)
(* target's pipeline ends Failed (bundle not found), never with success.     *)
C15_NoBundleFails ==
    \A i \in 1..N :
        (/\ pc[i] \in Terminal
         /\ "Locating" \in Range(stages[i])
         /\ archives[appsToInstall[i].url] = <<>>)
          => pc[i] = "Failed" /\ ~settled[i].success

\* the bundles moved during the run, by all pipelines
AllMoved == Flatten(moved)

(* C16: no overwrite.  In both modes a bundle name already present at the    *)
(* destination is never the target of a move: nothing that was there when    *)
(* the run started is moved onto, and each bundle is placed at most once per *)
(* run, also when two targets yield a bundle of the same name.               *)
C16_NoOverwrite ==
    /\ \A k \in 1..Len(AllMoved) : AllMoved[k] \notin dest0
    /\ \A k, l \in 1..Len(AllMoved) : AllMoved[k] = AllMoved[l] => k = l
    /\ dest = dest0 \cup Range(AllMoved)

\* a parallel run of two targets whose archives both hold a.app: both passed
\* the first check, the first moved a.app and the second left it alone
C16_Witness ==
    /\ opc = "done" /\ parallelFlag /\ N = 2
    /\ matched[1] = {} /\ matched[2] = {}
    /\ pc[1] = "Done" /\ pc[2] = "Done"
    /\ moved[1] = <<<<"a">>>> /\ moved[2] = <<>>
    /\ <<"a">> \in Range(archives[appsToInstall[2].url])

(* C17: every pipeline that ends with success and not skipped has removed    *)
(* its temporary archive file and its temporary extraction directory before  *)
(* it returns its result.                                                    *)
C17_CleanupOnSuccess ==
    \A i \in 1..N :
        (settled[i].success /\ ~settled[i].skipped) => ~tempFile[i] /\ ~tempDir[i]

\* a pipeline that downloaded, extracted and moved a bundle, and is done
C17_Witness ==
    \E i \in 1..N :
        /\ pc[i] = "Done" /\ settled[i].success /\ ~settled[i].skipped
        /\ "Extracting" \in Range(stages[i])
        /\ moved[i] # <<>>
        /\ ~tempFile[i] /\ ~tempDir[i]

(* C18: in sequential mode the pipeline of target k+1 performs no step       *)
(* before the pipeline of target k has reached Skipped, Done or Failed, and  *)
(* the i-th result belongs to the i-th target.                               *)
C18_SequentialOrder ==
    (~parallelFlag /\ opc # "off") =>
        /\ \A k \in 1..(N - 1) : pc[k + 1] # "Pending" => pc[k] \in Terminal
        /\ \A i \in 1..Len(results) :
              /\ results[i] = settled[i]
              /\ results[i].name = appsToInstall[i].name

\* the second of two different targets is extracting after the first failed
C18_Witness ==
    /\ ~parallelFlag /\ N = 2
    /\ appsToInstall[1].name # appsToInstall[2].name
    /\ pc[1] = "Failed" /\ pc[2] = "Extracting"
    /\ results = <<settled[1]>>

(* C19: in both modes every result with success and without skipped belongs  *)
(* to a pipeline that moved at least one bundle into the destination, so the *)
(* installed count of the summary never exceeds the number of bundles placed *)
(* during the run.  Stated for archives that hold a bundle.                  *)
C19_InstalledMeansPlaced ==
    /\ \A i \in 1..N :
          (/\ settled[i].success /\ ~settled[i].skipped
           /\ archives[appsToInstall[i].url] # <<>>)
            => moved[i] # <<>>
    /\ (opc = "done" /\ \A i \in 1..N : pc[i] = "Done" => archives[appsToInstall[i].url] # <<>>)
          => summary.installed <= Len(AllMoved)

(* C20: a target whose result is Failed has moved no bundle into the         *)
(* destination, also when its archive holds several bundles or when the      *)
(* final cleanup fails.                                                      *)
C20_FailedMovedNothing ==
    \A i \in 1..N : (pc[i] = "Failed" /\ ~settled[i].success) => moved[i] = <<>>

\* the acquisition of this run failed: the fetch did not complete, or the
\* document it returned is not of the catalog shape
AcquisitionFailed ==
    /\ Checked /\ fetchCount = 1
    /\ cpc = "crashed" \/ (cpc \in {"expiry", "loaded"} /\ json.shape # "catalog")

(* C21: a catalog acquisition that fails leaves the persisted cache as the   *)
(* run found it, so that a later cache hit yields a document from which the  *)
(* index can be built.                                                       *)
C21_FailedAcquisitionKeepsCache == AcquisitionFailed => cacheFile = checked.file

====
